---- MODULE Spec2Model ----
(***************************************************************************)
(* The Analyzer view of order-of-markov: a React component holding the     *)
(* state (problem, loading, result, error), its event handlers             *)
(* (onChange, handleKeyPress, the Analyze button, handleSubmit) and the    *)
(* asynchronous analyzeProblem call, in the two source variants:           *)
(*   "surfacing": frontend/src/Analyzer.tsx (and the copy of it that       *)
(*                follows ThemeToggle in frontend/src/ThemeToggle.tsx),    *)
(*                which throws on every failure;                           *)
(*   "fallback":  unnamed/part_000, whose analyzeProblem catches every     *)
(*                failure and returns a placeholder result.                *)
(* Every handler runs to its first await as one step (React flushes the    *)
(* batched state updates of a discrete event before the next event), and   *)
(* every continuation after an await is one step.                          *)
(***************************************************************************)
EXTENDS Integers, Sequences, FiniteSets, TLC

VARIABLES variant, isMac, problem, loading, result, error,
          reqs, posts, attempts, last,
          rawBase, url, view

vars == <<variant, isMac, problem, loading, result, error,
          reqs, posts, attempts, last, rawBase, url, view>>

\* the state of the pure computations: the configured base and the request
\* URL built from it, and the rendered result panel
fnvars == <<rawBase, url, view>>

(***************************************************************************)
(* Bounds                                                                  *)
(***************************************************************************)
\* longest problem text typed into the textarea
MaxLen == 2
\* number of handleSubmit invocations explored
MaxAttempts == 3
\* longest configured base, in tokens
MaxBaseLen == 5

(***************************************************************************)
(* JavaScript values                                                       *)
(***************************************************************************)
\* numbers are fixed-point, in units of 1/Scale (0.79999 is 79999)
Scale == 100000

Num(k) == [t |-> "number", n |-> k, s |-> ""]
NaN == [t |-> "number", n |-> 0, s |-> "NaN"]
Str(x) == [t |-> "string", n |-> 0, s |-> x]
Undefined == [t |-> "undefined", n |-> 0, s |-> "undefined"]
\* a non-empty array of objects, as FastAPI sends in a 422 "detail"
Arr == [t |-> "object", n |-> 0, s |-> "[object Object]"]

\* typeof v
TypeOf(v) == v.t

\* obj.f  (undefined when the property is absent)
Get(obj, f) == IF f \in DOMAIN obj THEN obj[f] ELSE Undefined

\* the truthiness of v, as `a || b` tests it
Truthy(v) ==
  CASE v.t = "undefined" -> FALSE
    [] v.t = "string" -> v.s # ""
    [] v.t = "number" -> v.s # "NaN" /\ v.n # 0
    [] OTHER -> TRUE

\* String(v), as `new Error(v)` computes the message (only used on the
\* strings and arrays that can reach it)
ToStr(v) == v.s

\* nullable React state: null, or a value
Null == <<>>
Some(v) == <<v>>

(***************************************************************************)
(* Problem text                                                            *)
(***************************************************************************)
Chars == {" ", "a"}

RECURSIVE SeqsUpTo(_)
SeqsUpTo(n) ==
  IF n = 0 THEN {<<>>}
  ELSE LET shorter == SeqsUpTo(n - 1)
       IN shorter \cup {Append(t, c) : t \in {u \in shorter : Len(u) = n - 1}, c \in Chars}

Texts == SeqsUpTo(MaxLen)

IsSpace(c) == c = " "

RECURSIVE TrimStart(_)
TrimStart(t) ==
  IF t # <<>> /\ IsSpace(Head(t)) THEN TrimStart(Tail(t)) ELSE t

RECURSIVE TrimEnd(_)
TrimEnd(t) ==
  IF t # <<>> /\ IsSpace(t[Len(t)]) THEN TrimEnd(SubSeq(t, 1, Len(t) - 1)) ELSE t

\* a trim that strips nothing
TrimNone(t) == t

\* problem.trim()
Trim(t) == TrimEnd(TrimStart(t))

(***************************************************************************)
(* Responses of the network                                                *)
(***************************************************************************)
Statuses == {200, 201, 422, 500}

\* resp.ok
Ok(status) == status >= 200 /\ status <= 299

NoObj == [none |-> Undefined]

\* a response body: not parseable as JSON (empty, HTML, ...), the JSON
\* value null, or a JSON object
BadJson == [parse |-> "fail", obj |-> NoObj]
JsonNull == [parse |-> "null", obj |-> NoObj]
JsonObj(o) == [parse |-> "object", obj |-> o]

ValidObjs ==
  { [order |-> Num(3 * Scale), justification |-> Str("x"), confidence |-> Num(90000)],
    [order |-> Num(1 * Scale), justification |-> Str("y"), confidence |-> Num(59999)] }

ShapelessObjs ==
  { [order |-> Num(3 * Scale), justification |-> Str("x")],
    [order |-> Str("3"), justification |-> Str("x"), confidence |-> Num(90000)],
    [order |-> Num(3 * Scale), justification |-> Num(7 * Scale), confidence |-> Num(90000)],
    [order |-> Num(3 * Scale), justification |-> Str("x"), confidence |-> Str("0.9")],
    [justification |-> Str("x"), confidence |-> Num(90000)] }

DetailObjs ==
  { [detail |-> Str("rate limited")],
    [detail |-> Str("")],
    [detail |-> Arr],
    [message |-> Str("oops")] }

Bodies ==
  {BadJson, JsonNull} \cup {JsonObj(o) : o \in ValidObjs \cup ShapelessObjs \cup DetailObjs}

\* a thrown value: an Error with its message, or a value that is no Error
Err(m) == [isError |-> TRUE, message |-> m]
NonErr(m) == [isError |-> FALSE, message |-> m]
NoExc == NonErr("")

\* what fetch can reject with: the TypeError of a network failure, or (a
\* mocked fetch) a value that is not an Error
Rejections ==
  { Err("Failed to fetch"),
    Err("NetworkError when attempting to fetch resource."),
    NonErr("connection refused") }

Pending == [kind |-> "pending", status |-> 0, body |-> BadJson, exc |-> NoExc]
Response(st, b) == [kind |-> "response", status |-> st, body |-> b, exc |-> NoExc]
Rejected(x) == [kind |-> "rejected", status |-> 0, body |-> BadJson, exc |-> x]

(***************************************************************************)
(* analyzeProblem                                                          *)
(***************************************************************************)
\* the three-field type check on a parsed object
ValidShape(o) ==
  /\ TypeOf(Get(o, "order")) = "number"
  /\ TypeOf(Get(o, "justification")) = "string"
  /\ TypeOf(Get(o, "confidence")) = "number"

InvalidFormatMsg == "Invalid response format from API"
InvalidShapeMsg == "Invalid response shape from API"
UnknownErrorMsg == "Unknown error"
JsonSyntaxMsg == "Unexpected end of JSON input"
NullReadMsg == "Cannot read properties of null"

ApiErrorMsg(status) == "API error " \o ToString(status)

\* errorData of the non-2xx branch: resp.json().catch(() => ({detail: "Unknown error"}))
ErrorData(body) ==
  IF body.parse = "fail" THEN JsonObj([detail |-> Str(UnknownErrorMsg)]) ELSE body

\* a non-2xx branch that ignores the body
NotOkErrorStatusOnly(status, body) == Err(ApiErrorMsg(status))

\* the Error thrown by the non-2xx branch of the surfacing client
NotOkError(status, body) ==
  LET errorData == ErrorData(body)
  IN IF errorData.parse = "null" THEN Err(NullReadMsg)
     ELSE LET detail == Get(errorData.obj, "detail")
          IN IF Truthy(detail) THEN Err(ToStr(detail)) ELSE Err(ApiErrorMsg(status))

\* the outcome of the 2xx branch: [ok |-> TRUE, data] when analyzeProblem
\* returns the body, [ok |-> FALSE, exc] when it throws
Returned(o) == [ok |-> TRUE, data |-> o, exc |-> NoExc]
Thrown(x) == [ok |-> FALSE, data |-> NoObj, exc |-> x]

OkOutcome(body, shapeMsg) ==
  CASE body.parse = "fail" -> Thrown(Err(JsonSyntaxMsg))
    [] body.parse = "null" -> Thrown(Err(NullReadMsg))
    [] OTHER -> IF ValidShape(body.obj) THEN Returned(body.obj)
                ELSE Thrown(Err(shapeMsg))

\* the placeholder of the fallback variant
Fallback ==
  [order |-> NaN, justification |-> Str("Error analyzing problem."), confidence |-> Num(0)]

(***************************************************************************)
(* handleSubmit                                                            *)
(***************************************************************************)
ValidationMsg == "Please describe your problem"
GenericMsg == "Failed to analyze problem. Please try again."

\* the message the catch clause of handleSubmit stores
CatchMessage(err) ==
  IF variant = "surfacing"
  THEN IF err.isError THEN err.message ELSE GenericMsg
  ELSE GenericMsg

Ids(rs) == {r.id : r \in rs}

\* a handleSubmit that forgets `setResult(null)`
HandleSubmitKeepsResult ==
  /\ attempts < MaxAttempts
  /\ attempts' = attempts + 1
  /\ IF Trim(problem) = <<>>
     THEN /\ error' = Some(ValidationMsg)
          /\ UNCHANGED <<loading, result, reqs, posts, last>>
     ELSE /\ loading' = TRUE
          /\ error' = Null
          /\ posts' = posts + 1
          /\ reqs' = reqs \cup {[id |-> posts + 1, pc |-> "fetch", resp |-> Pending]}
          /\ last' = Pending
          /\ UNCHANGED result
  /\ UNCHANGED <<variant, isMac, problem>>

\* the synchronous part of handleSubmit, up to the await of fetch
HandleSubmit ==
  /\ attempts < MaxAttempts
  /\ attempts' = attempts + 1
  /\ IF Trim(problem) = <<>>
     THEN /\ error' = Some(ValidationMsg)
          /\ UNCHANGED <<loading, result, reqs, posts, last>>
     ELSE /\ loading' = TRUE
          /\ error' = Null
          /\ result' = Null
          /\ posts' = posts + 1
          /\ reqs' = reqs \cup {[id |-> posts + 1, pc |-> "fetch", resp |-> Pending]}
          /\ last' = Pending
  /\ UNCHANGED <<variant, isMac, problem>>

\* `setResult(data)` then `finally setLoading(false)`
SubmitResolved(r, data) ==
  /\ result' = Some(data)
  /\ loading' = FALSE
  /\ reqs' = reqs \ {r}
  /\ UNCHANGED error

\* a catch clause with no `finally setLoading(false)`
SubmitRejectedNoFinally(r, err) ==
  /\ error' = Some(CatchMessage(err))
  /\ reqs' = reqs \ {r}
  /\ UNCHANGED <<result, loading>>

\* `catch (err) setError(...)` then `finally setLoading(false)`
SubmitRejected(r, err) ==
  /\ error' = Some(CatchMessage(err))
  /\ loading' = FALSE
  /\ reqs' = reqs \ {r}
  /\ UNCHANGED result

(***************************************************************************)
(* The controls                                                            *)
(***************************************************************************)
\* a textarea that is never disabled
TextareaNeverDisabled == FALSE

\* <textarea disabled={loading}>
TextareaDisabled == loading

\* a button that stays enabled while loading
ButtonDisabledBlankOnly == Trim(problem) = <<>>

\* <button disabled={loading || !problem.trim()}>
ButtonDisabled == loading \/ Trim(problem) = <<>>

KeyEvents == [key : {"Enter", "a"}, metaKey : BOOLEAN, ctrlKey : BOOLEAN]

\* the modifier test of handleKeyPress
WantsSubmit(e) ==
  LET wantsMeta == IF isMac THEN e.metaKey ELSE FALSE
      wantsCtrl == IF isMac THEN FALSE ELSE e.ctrlKey
  IN e.key = "Enter" /\ (wantsMeta \/ wantsCtrl)

\* onChange={(e) => setProblem(e.target.value)}
OnChange(text) ==
  /\ ~TextareaDisabled
  /\ problem' = text
  /\ UNCHANGED <<variant, isMac, loading, result, error, reqs, posts, attempts, last>>

\* onKeyDown={handleKeyPress}
HandleKeyPress(e) ==
  /\ ~TextareaDisabled
  /\ IF WantsSubmit(e) THEN HandleSubmit ELSE UNCHANGED vars

\* onClick={handleSubmit}
ClickAnalyze ==
  /\ ~ButtonDisabled
  /\ HandleSubmit

(***************************************************************************)
(* The continuations of analyzeProblem                                     *)
(***************************************************************************)
Latest(r) == r.id = posts

\* `await fetch(...)` resolves with a response
FetchResolve(r, status, body) ==
  /\ r \in reqs /\ r.pc = "fetch"
  /\ LET resp == Response(status, body)
         next == IF Ok(status) THEN "json"
                 ELSE IF variant = "surfacing" THEN "errjson" ELSE "text"
     IN /\ reqs' = (reqs \ {r}) \cup {[r EXCEPT !.pc = next, !.resp = resp]}
        /\ last' = IF Latest(r) THEN resp ELSE last
  /\ UNCHANGED <<variant, isMac, problem, loading, result, error, posts, attempts>>

\* a rejected fetch that is retried
FetchRejectRetry(r, exc) ==
  /\ r \in reqs /\ r.pc = "fetch"
  /\ posts <= MaxAttempts
  /\ posts' = posts + 1
  /\ reqs' = (reqs \ {r}) \cup {[r EXCEPT !.id = posts + 1]}
  /\ UNCHANGED <<variant, isMac, problem, loading, result, error, attempts, last>>

\* `await fetch(...)` rejects
FetchReject(r, exc) ==
  /\ r \in reqs /\ r.pc = "fetch"
  /\ last' = IF Latest(r) THEN Rejected(exc) ELSE last
  /\ IF variant = "surfacing"
     THEN SubmitRejected(r, exc)
     ELSE /\ reqs' = (reqs \ {r}) \cup {[r EXCEPT !.pc = "delay", !.resp = Rejected(exc)]}
          /\ UNCHANGED <<loading, result, error>>
  /\ UNCHANGED <<variant, isMac, problem, posts, attempts>>

\* the non-2xx branch after `await resp.json().catch(...)` (surfacing) or
\* `await resp.text().catch(...)` (fallback)
NotOkSettle(r) ==
  /\ r \in reqs /\ r.pc \in {"errjson", "text"}
  /\ IF r.pc = "errjson"
     THEN SubmitRejected(r, NotOkError(r.resp.status, r.resp.body))
     ELSE /\ reqs' = (reqs \ {r}) \cup {[r EXCEPT !.pc = "delay"]}
          /\ UNCHANGED <<loading, result, error>>
  /\ UNCHANGED <<variant, isMac, problem, posts, attempts, last>>

\* the 2xx branch after `await resp.json()`
JsonSettle(r) ==
  /\ r \in reqs /\ r.pc = "json"
  /\ LET out == OkOutcome(r.resp.body,
                          IF variant = "surfacing" THEN InvalidFormatMsg ELSE InvalidShapeMsg)
     IN IF out.ok THEN SubmitResolved(r, out.data)
        ELSE IF variant = "surfacing" THEN SubmitRejected(r, out.exc)
        ELSE /\ reqs' = (reqs \ {r}) \cup {[r EXCEPT !.pc = "delay"]}
             /\ UNCHANGED <<loading, result, error>>
  /\ UNCHANGED <<variant, isMac, problem, posts, attempts, last>>

\* a catch clause that rethrows after the delay
FallbackRethrow(r) ==
  /\ r \in reqs /\ r.pc = "delay"
  /\ SubmitRejected(r, Err(InvalidShapeMsg))
  /\ UNCHANGED <<variant, isMac, problem, posts, attempts, last>>

\* the 600 ms timer of the catch clause of the fallback variant fires
FallbackReturn(r) ==
  /\ r \in reqs /\ r.pc = "delay"
  /\ SubmitResolved(r, Fallback)
  /\ UNCHANGED <<variant, isMac, problem, posts, attempts, last>>

Network ==
  \/ \E r \in reqs, st \in Statuses, b \in Bodies : FetchResolve(r, st, b)
  \/ \E r \in reqs, x \in Rejections : FetchReject(r, x)
  \/ \E r \in reqs : NotOkSettle(r)
  \/ \E r \in reqs : JsonSettle(r)
  \/ \E r \in reqs : FallbackReturn(r)

(***************************************************************************)
(* The result panel                                                        *)
(***************************************************************************)
Abs(k) == IF k < 0 THEN -k ELSE k

\* the decimal digits of the fraction f (in units of 1/(10 * unit)), without
\* trailing zeros
RECURSIVE FracDigits(_, _)
FracDigits(f, unit) ==
  IF f = 0 THEN "" ELSE ToString(f \div unit) \o FracDigits(f % unit, unit \div 10)

\* String(v) of a number, as JSX renders {result.order}
NumToString(v) ==
  IF v.s = "NaN" THEN "NaN"
  ELSE LET m == Abs(v.n)
       IN (IF v.n < 0 THEN "-" ELSE "")
            \o ToString(m \div Scale)
            \o (IF m % Scale = 0 THEN "" ELSE "." \o FracDigits(m % Scale, Scale \div 10))

\* v * 100
Times100(v) == IF v.s = "NaN" THEN NaN ELSE Num(v.n * 100)

\* a toFixed(0) that truncates
ToFixed0Truncating(v) ==
  IF v.s = "NaN" THEN "NaN"
  ELSE (IF v.n < 0 THEN "-" ELSE "") \o ToString(Abs(v.n) \div Scale)

\* v.toFixed(0): the nearest integer, the larger one of two equally near
ToFixed0(v) ==
  IF v.s = "NaN" THEN "NaN"
  ELSE (IF v.n < 0 THEN "-" ELSE "") \o ToString((Abs(v.n) + Scale \div 2) \div Scale)

\* v >= k / 10 (false for NaN)
GeTenths(v, k) == v.s # "NaN" /\ v.n * 10 >= k * Scale

\* v === k
StrictEq(v, k) == v.t = "number" /\ v.s # "NaN" /\ v.n = k * Scale

GetConfidenceColor(conf) ==
  IF GeTenths(conf, 8) THEN "text-green-600"
  ELSE IF GeTenths(conf, 6) THEN "text-yellow-600"
  ELSE "text-orange-600"

\* v > k / 10
GtTenths(v, k) == v.s # "NaN" /\ v.n * 10 > k * Scale

\* a label with strict thresholds
GetConfidenceLabelStrict(conf) ==
  IF GtTenths(conf, 8) THEN "High"
  ELSE IF GtTenths(conf, 6) THEN "Moderate"
  ELSE "Low"

GetConfidenceLabel(conf) ==
  IF GeTenths(conf, 8) THEN "High"
  ELSE IF GeTenths(conf, 6) THEN "Moderate"
  ELSE "Low"

\* the English suffix, by the last digit
OrdinalSuffixByLastDigit(order) ==
  IF order.s = "NaN" \/ order.n % Scale # 0 THEN "th"
  ELSE LET k == Abs(order.n) \div Scale
       IN IF k % 100 \in {11, 12, 13} THEN "th"
          ELSE IF k % 10 = 1 THEN "st"
          ELSE IF k % 10 = 2 THEN "nd"
          ELSE IF k % 10 = 3 THEN "rd"
          ELSE "th"

\* the <sup> after result.order
OrdinalSuffix(order) ==
  IF StrictEq(order, 1) THEN "st"
  ELSE IF StrictEq(order, 2) THEN "nd"
  ELSE IF StrictEq(order, 3) THEN "rd"
  ELSE "th"

\* {result && (...)}: the texts of the panel, nothing when result is null
RenderView(res) ==
  IF res = Null THEN Null
  ELSE LET r == res[1]
       IN Some([order |-> NumToString(r.order),
                suffix |-> OrdinalSuffix(r.order),
                justification |-> r.justification.s,
                percent |-> ToFixed0(Times100(r.confidence)) \o "%",
                label |-> "(" \o GetConfidenceLabel(r.confidence) \o ")",
                color |-> GetConfidenceColor(r.confidence)])

(***************************************************************************)
(* The request URL                                                         *)
(***************************************************************************)
\* a configured base is a string of these tokens; "api" stands for the three
\* letters, "x" for any other run of characters without "/" and whitespace
BaseTokens == {"/", " ", "api", "x"}

RECURSIVE TokenSeqs(_)
TokenSeqs(n) ==
  IF n = 0 THEN {<<>>}
  ELSE LET shorter == TokenSeqs(n - 1)
       IN shorter \cup {Append(t, c) : t \in {u \in shorter : Len(u) = n - 1}, c \in BaseTokens}

\* the values of import.meta.env.VITE_API_BASE (absent or "" is <<>>)
Bases == TokenSeqs(MaxBaseLen)

DefaultBase == <<"http://localhost:8000">>

\* replace(/\/+$/g, "")
RECURSIVE StripSlashes(_)
StripSlashes(t) ==
  IF t # <<>> /\ t[Len(t)] = "/" THEN StripSlashes(SubSeq(t, 1, Len(t) - 1)) ELSE t

\* replace(/\/$/, "")
StripSlash(t) ==
  IF t # <<>> /\ t[Len(t)] = "/" THEN SubSeq(t, 1, Len(t) - 1) ELSE t

\* /\/api($|\/)/.test(t)
HasApiSegment(t) ==
  \E i \in 1..(Len(t) - 1) :
    /\ t[i] = "/" /\ t[i + 1] = "api"
    /\ (i + 1 = Len(t) \/ t[i + 2] = "/")

\* startsWith("/")
StartsWithSlash(t) == t # <<>> /\ t[1] = "/"

\* an apiBase without the branch for a base that starts with "/"
ApiBaseNoRelative(raw) ==
  IF raw = <<>> THEN <<"/", "api">>
  ELSE LET trimmed == StripSlashes(Trim(raw))
       IN IF HasApiSegment(trimmed) THEN trimmed ELSE trimmed \o <<"/", "api">>

\* apiBase of the fallback variant
ApiBase(raw) ==
  IF raw = <<>> THEN <<"/", "api">>
  ELSE LET trimmed == StripSlashes(Trim(raw))
       IN IF StartsWithSlash(trimmed) THEN trimmed
          ELSE IF HasApiSegment(trimmed) THEN trimmed
          ELSE trimmed \o <<"/", "api">>

\* url of analyzeProblem
AnalyzeUrl(raw) ==
  IF variant = "surfacing"
  THEN (IF raw = <<>> THEN DefaultBase ELSE raw) \o <<"/", "api", "/", "analyze">>
  ELSE StripSlash(ApiBase(raw)) \o <<"/", "analyze">>

(***************************************************************************)
(* Results shown by the panel                                              *)
(***************************************************************************)
Orders ==
  {Num(k * Scale) : k \in {-1, 0, 1, 2, 3, 4, 5, 6, 11, 12, 13, 21, 22, 23, 101}}
    \cup {Num(Scale + Scale \div 2), Num(3 * Scale + 1)}

Confidences ==
  {Num(k) : k \in {-50000, -500, 0, 500, 12500, 59999, 60000, 60001, 79999, 80000,
                   80001, 90000, 100000, 150000}}

RenderInputs ==
  {[order |-> o, justification |-> Str("x"), confidence |-> Num(90000)] : o \in Orders}
    \cup {[order |-> Num(3 * Scale), justification |-> Str("x"), confidence |-> c] : c \in Confidences}
    \cup {Fallback}

(***************************************************************************)
(* Specification                                                           *)
(***************************************************************************)
Init ==
  /\ variant \in {"surfacing", "fallback"}
  /\ isMac \in BOOLEAN
  /\ problem = <<>>
  /\ loading = FALSE
  /\ result = Null
  /\ error = Null
  /\ reqs = {}
  /\ posts = 0
  /\ attempts = 0
  /\ last = Pending
  /\ rawBase = <<>>
  /\ url = Null
  /\ view = Null

Next ==
  \/ ClickAnalyze /\ UNCHANGED fnvars
  \/ \E e \in KeyEvents : HandleKeyPress(e) /\ UNCHANGED fnvars
  \/ \E text \in Texts : OnChange(text) /\ UNCHANGED fnvars
  \/ \E r \in reqs, st \in Statuses, b \in Bodies : FetchResolve(r, st, b) /\ UNCHANGED fnvars
  \/ \E r \in reqs, x \in Rejections : FetchReject(r, x) /\ UNCHANGED fnvars
  \/ \E r \in reqs : NotOkSettle(r) /\ UNCHANGED fnvars
  \/ \E r \in reqs : JsonSettle(r) /\ UNCHANGED fnvars
  \/ \E r \in reqs : FallbackReturn(r) /\ UNCHANGED fnvars

Spec == Init /\ [][Next]_vars

\* the network call eventually resolves or rejects, awaited promises settle
\* and the timer fires
LiveSpec == Spec /\ WF_vars(Network /\ UNCHANGED fnvars)

(***************************************************************************)
(* The pure computations on their own: the request URL of every configured *)
(* base, and the panel of every result                                     *)
(***************************************************************************)
viewvars == <<variant, isMac, problem, loading, result, error,
              reqs, posts, attempts, last>>

\* the first lines of analyzeProblem
BuildUrl ==
  /\ url = Null
  /\ url' = Some(AnalyzeUrl(rawBase))
  /\ UNCHANGED <<viewvars, rawBase, view>>

\* the render of a non-null result
Render ==
  /\ result # Null
  /\ view = Null
  /\ view' = RenderView(result)
  /\ UNCHANGED <<viewvars, rawBase, url>>

FnInit ==
  /\ variant \in {"surfacing", "fallback"}
  /\ isMac = FALSE
  /\ problem = <<>>
  /\ loading = FALSE
  /\ error = Null
  /\ reqs = {}
  /\ posts = 0
  /\ attempts = 0
  /\ last = Pending
  /\ \/ rawBase \in Bases /\ result = Null
     \/ rawBase = <<>> /\ result \in {Some(o) : o \in RenderInputs}
  /\ url = Null
  /\ view = Null

FnNext ==
  \/ BuildUrl
  \/ Render

FnSpec == FnInit /\ [][FnNext]_vars

(***************************************************************************)
(* Properties                                                              *)
(***************************************************************************)
\* a text of whitespace only (the empty text included)
IsBlank(t) == \A i \in 1..Len(t) : IsSpace(t[i])

\* the step invokes handleSubmit
Submits == attempts' # attempts

\* the step ends request r: handleSubmit has run its finally clause
Completed(r) == r \in reqs /\ r.id \notin Ids(reqs')

\* C1: over any sequence of user events and network completions, at most one
\* analyze request is outstanding, and a request is outstanding exactly
\* while loading is true.
C1_AtMostOneInFlight ==
  /\ Cardinality(reqs) <= 1
  /\ loading <=> reqs # {}

C1_Witness == loading /\ Cardinality(reqs) = 1 /\ posts = 2

\* C2: a submission attempt on an empty or whitespace-only problem text
\* issues no request, leaves loading false and sets error to
\* "Please describe your problem".
C2_BlankRejected ==
  [][(Submits /\ IsBlank(problem)) =>
       /\ posts' = posts
       /\ reqs' = reqs
       /\ loading' = FALSE
       /\ error' = Some("Please describe your problem")]_vars

C2_Witness ==
  /\ problem = <<" ", " ">>
  /\ error = Some("Please describe your problem")
  /\ ~loading /\ posts = 0 /\ attempts > 0

\* C3: every submission of a non-blank text issues exactly one POST, and no
\* other step (a failure or a success of the request included) issues one.
C3_OnePostPerSubmission ==
  [][posts' = posts + (IF Submits /\ ~IsBlank(problem) THEN 1 ELSE 0)]_vars

C3_Witness ==
  /\ posts = 2 /\ attempts = 2 /\ reqs = {}
  /\ last.kind = "rejected" /\ ~loading

\* C4: result and error are never both non-null.
C4_NotBoth == ~(result # Null /\ error # Null)

\* C5: while loading is true both result and error are null.
C5_LoadingClears == loading => (result = Null /\ error = Null)

C5_Witness == loading /\ posts = 2 /\ result = Null /\ error = Null

\* C6: every accepted submission eventually leaves the submitting state with
\* loading false and exactly one of result and error non-null.
C6_EventuallySettles ==
  loading ~> (~loading /\ ((result # Null) # (error # Null)))

C6_Witness ==
  /\ ~loading /\ posts > 0 /\ reqs = {}
  /\ result = Null /\ error # Null /\ last.kind = "response"

\* C7 as stated: in the error-surfacing client a non-2xx response shows its
\* detail message when the body carries one and "API error <status>" for
\* every body without one (empty, non-JSON, JSON without the field).
HasDetailMessage(body) ==
  /\ body.parse = "object"
  /\ TypeOf(Get(body.obj, "detail")) = "string"
  /\ Get(body.obj, "detail").s # ""

HasNoDetail(body) ==
  \/ body.parse # "object"
  \/ TypeOf(Get(body.obj, "detail")) = "undefined"

NotOkCompletion(r) ==
  /\ variant = "surfacing"
  /\ Completed(r)
  /\ r.resp.kind = "response"
  /\ ~Ok(r.resp.status)

LacksOrMistypes(o) ==
  \/ "order" \notin DOMAIN o \/ o["order"].t # "number"
  \/ "justification" \notin DOMAIN o \/ o["justification"].t # "string"
  \/ "confidence" \notin DOMAIN o \/ o["confidence"].t # "number"

C8_ShapeRejected ==
  [][\A r \in reqs :
       (/\ Completed(r)
        /\ r.resp.kind = "response" /\ Ok(r.resp.status)
        /\ r.resp.body.parse = "object" /\ LacksOrMistypes(r.resp.body.obj))
       => /\ result' = Null
          /\ error' \in {Some("Invalid response format from API"),
                         Some("Invalid response shape from API")}]_vars

\* C9: when fetch rejects, the error shown is the fixed message "Failed to
\* analyze problem. Please try again.", result is null and loading is false.
C9_TransportGeneric ==
  [][\A r \in reqs :
       (Completed(r) /\ (r.pc = "fetch" \/ r.resp.kind = "rejected"))
       => /\ error' = Some("Failed to analyze problem. Please try again.")
          /\ result' = Null
          /\ loading' = FALSE]_vars

\* C10: result is non-null only if the request of the most recent submission
\* returned a 2xx status with a JSON body passing the three-field type check,
\* and result is that body.
C10_ResultOnlyFromValid ==
  result # Null =>
    /\ last.kind = "response"
    /\ Ok(last.status)
    /\ last.body.parse = "object"
    /\ ~LacksOrMistypes(last.body.obj)
    /\ result = Some(last.body.obj)

\* C11: a 2xx response with a valid body ends with result equal to the body,
\* error null and loading false; the panel shows the order with its ordinal
\* suffix, the justification, and the confidence as the integer nearest to
\* confidence * 100 followed by "%" and its label; the body {order: 3,
\* justification: "x", confidence: 0.9} shows "3rd", "x" and "90% (High)".
PanelText(v) ==
  <<v.order \o v.suffix, v.justification, v.percent \o " " \o v.label>>

NearestPercent(c, p) == Abs(p * Scale - 100 * c) * 2 <= Scale

C11_ValidShown ==
  [][\A r \in reqs :
       (/\ Completed(r)
        /\ r.resp.kind = "response" /\ Ok(r.resp.status)
        /\ r.resp.body.parse = "object" /\ ~LacksOrMistypes(r.resp.body.obj))
       => LET o == r.resp.body.obj
              v == RenderView(result')[1]
          IN /\ result' = Some(o)
             /\ error' = Null
             /\ loading' = FALSE
             /\ v.justification = o.justification.s
             /\ \E p \in 0..100 : NearestPercent(o.confidence.n, p)
                                  /\ v.percent = ToString(p) \o "%"
             /\ (o.order.n = 3 * Scale /\ o.justification.s = "x" /\ o.confidence.n = 90000)
                  => PanelText(v) = <<"3rd", "x", "90% (High)">>
             /\ (o.order.n = 1 * Scale /\ o.justification.s = "y" /\ o.confidence.n = 59999)
                  => PanelText(v) = <<"1st", "y", "60% (Low)">>]_vars

C11_Witness ==
  /\ ~loading /\ error = Null /\ reqs = {}
  /\ last = Response(200, JsonObj([order |-> Num(3 * Scale), justification |-> Str("x"),
                                   confidence |-> Num(90000)]))
  /\ result # Null
  /\ PanelText(RenderView(result)[1]) = <<"3rd", "x", "90% (High)">>

\* C12 as stated: an absent base gives "/api/analyze"; otherwise the trailing
\* slashes of the base are removed and "/api" is appended before "/analyze"
\* unless the base already ends in "/api".
EndsWithApi(t) ==
  Len(t) >= 2 /\ t[Len(t) - 1] = "/" /\ t[Len(t)] = "api"

ClaimedUrl(raw) ==
  IF raw = <<>> THEN <<"/", "api", "/", "analyze">>
  ELSE LET base == StripSlashes(Trim(raw))
       IN IF EndsWithApi(base) THEN base \o <<"/", "analyze">>
          ELSE base \o <<"/", "api", "/", "analyze">>

C12_Original ==
  (variant = "fallback" /\ url # Null) => url = Some(ClaimedUrl(rawBase))

\* C12 (amended): in the fallback variant an absent base gives "/api/analyze";
\* otherwise surrounding whitespace and trailing slashes of the base are
\* removed, a base that then starts with "/" is used unchanged, and any other
\* base gets "/api" appended unless it contains a segment "/api" (at its end
\* or followed by "/"); "/analyze" is appended to the outcome.
ContainsApiSegment(t) ==
  \/ EndsWithApi(t)
  \/ \E i \in 1..Len(t) : i + 2 <= Len(t) /\ SubSeq(t, i, i + 2) = <<"/", "api", "/">>

C12_Url ==
  (variant = "fallback" /\ url # Null) =>
    LET base == StripSlashes(Trim(rawBase))
    IN CASE rawBase = <<>> -> url = Some(<<"/", "api", "/", "analyze">>)
         [] rawBase # <<>> /\ base # <<>> /\ Head(base) = "/"
              -> url = Some(base \o <<"/", "analyze">>)
         [] rawBase # <<>> /\ ~(base # <<>> /\ Head(base) = "/") /\ ContainsApiSegment(base)
              -> url = Some(base \o <<"/", "analyze">>)
         [] OTHER -> url = Some(base \o <<"/", "api", "/", "analyze">>)

C12_Witness ==
  /\ variant = "fallback"
  /\ rawBase = <<"/", "x", "/">>
  /\ url = Some(<<"/", "x", "/", "analyze">>)

\* C13: getConfidenceLabel gives "High" for c >= 0.80, "Moderate" for
\* 0.60 <= c < 0.80 and "Low" for c < 0.60, and getConfidenceColor falls in
\* the same band.
BandOfLabel(l) ==
  CASE l = "(High)" -> 3 [] l = "(Moderate)" -> 2 [] l = "(Low)" -> 1 [] OTHER -> 0

BandOfColor(c) ==
  CASE c = "text-green-600" -> 3 [] c = "text-yellow-600" -> 2
    [] c = "text-orange-600" -> 1 [] OTHER -> -1

C13_ConfidenceBands ==
  view # Null =>
    LET c == result[1].confidence.n
        v == view[1]
    IN /\ c >= 80000 => v.label = "(High)"
       /\ (c >= 60000 /\ c < 80000) => v.label = "(Moderate)"
       /\ c < 60000 => v.label = "(Low)"
       /\ BandOfColor(v.color) = BandOfLabel(v.label)

C13_Witness ==
  /\ view # Null
  /\ result[1].confidence = Num(79999)
  /\ view[1].label = "(Moderate)" /\ view[1].color = "text-yellow-600"

\* C14: the suffix after result.order is "st" for 1, "nd" for 2, "rd" for 3
\* and "th" for every other number (4, 5, out-of-range integers,
\* non-integers, NaN).
C14_OrdinalSuffix ==
  view # Null =>
    LET o == result[1].order
        isInt(k) == o.s # "NaN" /\ o.n = k * Scale
    IN view[1].suffix = (CASE isInt(1) -> "st" [] isInt(2) -> "nd" [] isInt(3) -> "rd"
                           [] OTHER -> "th")

C14_Witness ==
  /\ view # Null
  /\ result[1].order = Num(21 * Scale)
  /\ view[1].order = "21" /\ view[1].suffix = "th"

\* C15: in the fallback variant the only non-null error is the validation
\* message, every request ends with error null and result non-null, and a
\* request that failed (fetch rejected, non-2xx status, unparseable or
\* mis-shaped body) ends after the delay with the placeholder as result.
FailedResponse(resp) ==
  \/ resp.kind = "rejected"
  \/ resp.kind = "response" /\ ~Ok(resp.status)
  \/ resp.kind = "response" /\ resp.body.parse # "object"
  \/ resp.kind = "response" /\ resp.body.parse = "object" /\ LacksOrMistypes(resp.body.obj)

C15_FallbackNeverRejects ==
  [][variant = "fallback" =>
       /\ error' \in {Null, Some("Please describe your problem")}
       /\ \A r \in reqs : Completed(r) =>
            /\ error' = Null /\ result' # Null /\ loading' = FALSE
            /\ FailedResponse(r.resp) =>
                 /\ r.pc = "delay"
                 /\ result' = Some([order |-> NaN,
                                    justification |-> Str("Error analyzing problem."),
                                    confidence |-> Num(0)])]_vars

C15_Witness ==
  /\ variant = "fallback" /\ ~loading /\ reqs = {}
  /\ last.kind = "rejected"
  /\ error = Null
  /\ result = Some(Fallback)

\* C16 as stated: a second submission can be made while the first request is
\* still outstanding (so that the late response of the first could overwrite
\* the outcome of the second).
SecondSubmission ==
  \/ ClickAnalyze
  \/ \E e \in KeyEvents : WantsSubmit(e) /\ HandleKeyPress(e)

C16_Original ==
  (reqs # {} /\ ~IsBlank(problem) /\ attempts < MaxAttempts) => ENABLED SecondSubmission

\* C16 (amended): a new submission does not cancel an in-flight request, but
\* none can be made while a request is outstanding, so a response that
\* completes always belongs to the most recent submission and never
\* overwrites the outcome of a newer one.
C16_NoStaleOverwrite ==
  [][/\ loading => ~Submits
     /\ \A r \in reqs : Completed(r) => (r.id = posts /\ reqs' = {})]_vars

C16_Witness ==
  /\ loading /\ ~IsBlank(problem) /\ attempts < MaxAttempts
  /\ Cardinality(reqs) = 1 /\ posts = 1
  /\ \E r \in reqs : r.pc = "json"

====
